---- MODULE Spec2Model ----
\* Kingdomino board model (src/model.rs): tile values, the Kingdom's placement
\* log and grid index, the cell-geometry and adjacency resolvers, and the
\* placement engine of the design document (section 4.3).
EXTENDS Integers, Sequences, FiniteSets, TLC

VARIABLES
    placements,       \* Kingdom.placements : Vec<TilePlacement>
    grid,             \* Kingdom.grid : HashMap<(i8, i8), PlacementIndex>
    pc,               \* position of the caller: "idle", "proposed", "returned"
    placement,        \* the TilePlacement handed to the operation under way
    result,           \* outcome of attempt_place: "None", "Ok" or a TilePlacementError
    overflow_checks,  \* build profile: TRUE = overflow panics, FALSE = it wraps
    positions,        \* return of get_positions_filled_by_placement
    position,         \* argument of get_adjacent_positions
    adjacent,         \* return of get_adjacent_positions
    domino,           \* argument of Domino::flip
    flipped,          \* flip(domino)
    flipped_twice     \* flip(flip(domino))

vars == << placements, grid, pc, placement, result, overflow_checks,
           positions, position, adjacent, domino, flipped, flipped_twice >>

----------------------------------------------------------------------------
\* Bounds of the model

\* candidate anchors offered to attempt_place have both coordinates in -MaxCoord..MaxCoord
MaxCoord == 3
\* attempt_place is offered only while the log holds fewer placements than this
MaxPlacements == 3
\* crown counts of the Domino values given to flip range over 0..MaxCrowns
MaxCrowns == 3

----------------------------------------------------------------------------
\* Tile values

TileType == {"Forest", "Wheat", "Water", "Grassland", "Swamp", "Mountain"}

AnyTileType == {"Castle"} \cup TileType

DominoSide(tile_type, crown_count) ==
    [tile_type |-> tile_type, crown_count |-> crown_count]

Domino(side0, side1) == << side0, side1 >>

flip_same_side(self) == Domino(self[2], self[2])

flip(self) == Domino(self[2], self[1])

domino_of(tile1, crown1, tile2, crown2) ==
    Domino(DominoSide(tile1, crown1), DominoSide(tile2, crown2))

ALL_TILES ==
    << domino_of("Wheat", 0, "Wheat", 0),
       domino_of("Wheat", 0, "Wheat", 0),
       domino_of("Forest", 0, "Forest", 0),
       domino_of("Forest", 0, "Forest", 0),
       domino_of("Forest", 0, "Forest", 0),
       domino_of("Forest", 0, "Forest", 0),
       domino_of("Water", 0, "Water", 0),
       domino_of("Water", 0, "Water", 0),
       domino_of("Water", 0, "Water", 0),
       domino_of("Grassland", 0, "Grassland", 0),
       domino_of("Grassland", 0, "Grassland", 0),
       domino_of("Swamp", 0, "Swamp", 0),
       domino_of("Wheat", 0, "Forest", 0),
       domino_of("Wheat", 0, "Water", 0),
       domino_of("Wheat", 0, "Grassland", 0),
       domino_of("Wheat", 0, "Swamp", 0),
       domino_of("Forest", 0, "Water", 0),
       domino_of("Forest", 0, "Grassland", 0),
       domino_of("Wheat", 1, "Forest", 0),
       domino_of("Wheat", 1, "Water", 0),
       domino_of("Wheat", 1, "Grassland", 0),
       domino_of("Wheat", 1, "Swamp", 0),
       domino_of("Wheat", 1, "Mountain", 0),
       domino_of("Forest", 1, "Wheat", 0),
       domino_of("Forest", 1, "Wheat", 0),
       domino_of("Forest", 1, "Wheat", 0),
       domino_of("Forest", 1, "Wheat", 0),
       domino_of("Forest", 1, "Water", 0),
       domino_of("Forest", 1, "Grassland", 0),
       domino_of("Water", 1, "Wheat", 0),
       domino_of("Water", 1, "Wheat", 0),
       domino_of("Water", 1, "Forest", 0),
       domino_of("Water", 1, "Forest", 0),
       domino_of("Water", 1, "Forest", 0),
       domino_of("Water", 1, "Forest", 0),
       domino_of("Wheat", 0, "Grassland", 1),
       domino_of("Water", 0, "Grassland", 1),
       domino_of("Wheat", 0, "Swamp", 1),
       domino_of("Grassland", 0, "Swamp", 1),
       domino_of("Mountain", 1, "Wheat", 1),
       domino_of("Wheat", 0, "Grassland", 2),
       domino_of("Water", 0, "Grassland", 2),
       domino_of("Wheat", 0, "Swamp", 2),
       domino_of("Grassland", 0, "Swamp", 2),
       domino_of("Mountain", 2, "Wheat", 0),
       domino_of("Swamp", 0, "Mountain", 2),
       domino_of("Swamp", 0, "Mountain", 2),
       domino_of("Wheat", 0, "Mountain", 3) >>

\* Tile::Castle and Tile::Domino(d); the Castle carries no domino
TileCastle == [kind |-> "Castle", domino |-> << >>]

TileDomino(d) == [kind |-> "Domino", domino |-> d]

TileOrientation == {"LeftRight", "TopBottom", "RightLeft", "BottomTop"}

Position(x, y) == << x, y >>

TilePlacement(tile, pos, orientation) ==
    [tile |-> tile, position |-> pos, orientation |-> orientation]

TilePlacementError == {"OverlapsExistingTile", "NoMatchingAdjacentTile", "OutOfBounds"}

\* the side of the larger board variant
KINGDOM_MAX_SIZE_7x7 == 7

KINGDOM_MAX_SIZE == 5

PlacementIndex(i) == i

----------------------------------------------------------------------------
\* i8 arithmetic of Position coordinates

I8_MIN == 0 - 128

I8_MAX == 127

I8 == I8_MIN .. I8_MAX

\* the value an i8 addition stores when overflow checks are off
wrap_i8(v) == ((v - I8_MIN) % 256) + I8_MIN

\* x + d on i8: panics under overflow checks, wraps otherwise
add_i8(x, d, checks) ==
    IF (x + d) \in I8
    THEN [panicked |-> FALSE, value |-> x + d]
    ELSE IF checks
         THEN [panicked |-> TRUE, value |-> 0]
         ELSE [panicked |-> FALSE, value |-> wrap_i8(x + d)]

----------------------------------------------------------------------------
\* Kingdom

Kingdom(ps, g) == [placements |-> ps, grid |-> g]

new_off_origin ==
    Kingdom(<< TilePlacement(TileCastle, Position(1, 0), "LeftRight") >>,
            (Position(1, 0) :> PlacementIndex(0)))

new_index_one ==
    Kingdom(<< TilePlacement(TileCastle, Position(0, 0), "LeftRight") >>,
            (Position(0, 0) :> PlacementIndex(1)))

new ==
    Kingdom(<< TilePlacement(TileCastle, Position(0, 0), "LeftRight") >>,
            (Position(0, 0) :> PlacementIndex(0)))

\* the outcome of a call that may panic: the returned positions, if any
Returned(ps) == [panicked |-> FALSE, positions |-> ps]

Panicked == [panicked |-> TRUE, positions |-> << >>]

get_positions_transposed(self, p, checks) ==
    IF p.tile.kind = "Castle"
    THEN Returned(<< p.position >>)
    ELSE LET x == p.position[1]
             y == p.position[2]
             second ==
                 CASE p.orientation = "LeftRight" -> << x, y + 1 >>
                   [] p.orientation = "TopBottom" -> << x - 1, y >>
                   [] p.orientation = "RightLeft" -> << x, y - 1 >>
                   [] p.orientation = "BottomTop" -> << x + 1, y >>
         IN  Returned(<< Position(x, y), second >>)

get_positions_filled_by_placement(self, p, checks) ==
    IF p.tile.kind = "Castle"
    THEN Returned(<< p.position >>)
    ELSE LET x == p.position[1]
             y == p.position[2]
             moved ==
                 CASE p.orientation = "LeftRight" -> add_i8(x, 1, checks)
                   [] p.orientation = "TopBottom" -> add_i8(y, -1, checks)
                   [] p.orientation = "RightLeft" -> add_i8(x, -1, checks)
                   [] p.orientation = "BottomTop" -> add_i8(y, 1, checks)
             second ==
                 IF p.orientation \in {"LeftRight", "RightLeft"}
                 THEN Position(moved.value, y)
                 ELSE Position(x, moved.value)
         IN  IF moved.panicked
             THEN Panicked
             ELSE Returned(<< Position(x, y), second >>)

get_adjacent_diagonal(self, pos, checks) ==
    Returned(<< Position(pos[1] + 1, pos[2] + 1), Position(pos[1] + 1, pos[2] - 1),
                Position(pos[1] - 1, pos[2] - 1), Position(pos[1] - 1, pos[2] + 1) >>)

\* the array is built left to right: the first overflowing addition panics
get_adjacent_positions(self, pos, checks) ==
    LET x == pos[1]
        y == pos[2]
        xp == add_i8(x, 1, checks)
        ym == add_i8(y, -1, checks)
        xm == add_i8(x, -1, checks)
        yp == add_i8(y, 1, checks)
    IN  IF xp.panicked \/ ym.panicked \/ xm.panicked \/ yp.panicked
        THEN Panicked
        ELSE Returned(<< Position(xp.value, y), Position(x, ym.value),
                         Position(xm.value, y), Position(x, yp.value) >>)

----------------------------------------------------------------------------
\* Placement engine (design document, section 4.3)

HalfWidth == KINGDOM_MAX_SIZE \div 2

Abs(v) == IF v < 0 THEN 0 - v ELSE v

in_bounds(pos) == Abs(pos[1]) <= HalfWidth /\ Abs(pos[2]) <= HalfWidth

Cells(ps) == {ps[i] : i \in 1 .. Len(ps)}

\* AnyTileType of an occupied cell: Castle, or the terrain of the domino half on it
tile_type_at(self, pos, checks) ==
    LET p == self.placements[self.grid[pos] + 1]
    IN  IF p.tile.kind = "Castle"
        THEN "Castle"
        ELSE LET filled == get_positions_filled_by_placement(self, p, checks).positions
             IN  IF pos = filled[1]
                 THEN p.tile.domino[1].tile_type
                 ELSE p.tile.domino[2].tile_type

has_matching_adjacent_tile(self, p, filled, checks) ==
    \E i \in 1 .. Len(filled) :
        LET adj == get_adjacent_positions(self, filled[i], checks).positions
        IN  \E j \in 1 .. Len(adj) :
                /\ adj[j] \in DOMAIN self.grid
                /\ tile_type_at(self, adj[j], checks)
                       \in {"Castle", p.tile.domino[i].tile_type}

\* append the placement and index each of its cells under the new sequence index
commit(self, p, filled) ==
    Kingdom(Append(self.placements, p),
            [c \in DOMAIN self.grid \cup Cells(filled) |->
                IF c \in Cells(filled)
                THEN PlacementIndex(Len(self.placements))
                ELSE self.grid[c]])

Outcome(k, r) == [kingdom |-> k, result |-> r]

attempt_place_indexes_first(self, p, checks) ==
    LET filled == get_positions_filled_by_placement(self, p, checks).positions
        indexed == Kingdom(self.placements, commit(self, p, filled).grid)
    IN  IF \E c \in Cells(filled) : ~ in_bounds(c)
        THEN Outcome(self, "OutOfBounds")
        ELSE IF \E c \in Cells(filled) : c \in DOMAIN self.grid
        THEN Outcome(self, "OverlapsExistingTile")
        ELSE IF ~ has_matching_adjacent_tile(self, p, filled, checks)
        THEN Outcome(indexed, "NoMatchingAdjacentTile")
        ELSE Outcome(commit(self, p, filled), "Ok")

attempt_place(self, p, checks) ==
    LET got == get_positions_filled_by_placement(self, p, checks)
        filled == got.positions
    IN  IF got.panicked
        THEN Outcome(self, "Panicked")
        ELSE IF \E c \in Cells(filled) : ~ in_bounds(c)
        THEN Outcome(self, "OutOfBounds")
        ELSE IF \E c \in Cells(filled) : c \in DOMAIN self.grid
        THEN Outcome(self, "OverlapsExistingTile")
        ELSE IF ~ has_matching_adjacent_tile(self, p, filled, checks)
        THEN Outcome(self, "NoMatchingAdjacentTile")
        ELSE Outcome(commit(self, p, filled), "Ok")

----------------------------------------------------------------------------
\* Inputs

\* the domino offered for placement: (Wheat, 0) / (Forest, 0)
WheatForest == ALL_TILES[13]

Coords == (0 - MaxCoord) .. MaxCoord

\* the placements a caller may propose to attempt_place
Candidates ==
    {TilePlacement(TileDomino(WheatForest), Position(x, y), o) :
        x \in Coords, y \in Coords, o \in TileOrientation}

\* anchors reaching both ends of the i8 range on either axis
I8Positions ==
    {Position(x, y) : x \in I8, y \in Coords} \cup {Position(x, y) : x \in Coords, y \in I8}

PlacementInputs ==
    {TilePlacement(t, pos, o) :
        t \in {TileCastle, TileDomino(WheatForest)}, pos \in I8Positions,
        o \in TileOrientation}

\* Kingdom states the resolvers are called on: new, and new after one placement
SampleKingdoms ==
    {new,
     attempt_place(new, TilePlacement(TileDomino(WheatForest), Position(1, 0), "LeftRight"),
                   FALSE).kingdom}

DominoSides == {DominoSide(t, c) : t \in TileType, c \in 0 .. MaxCrowns}

DominoValues ==
    {Domino(a, b) : a \in DominoSides, b \in DominoSides}
        \cup {ALL_TILES[i] : i \in 1 .. Len(ALL_TILES)}

NoPlacement == new.placements[1]

----------------------------------------------------------------------------
\* Kingdom::new, then a caller proposing placements to attempt_place

Idle ==
    /\ pc = "idle"
    /\ placement = NoPlacement
    /\ result = "None"
    /\ positions = Returned(<< >>)
    /\ position = Position(0, 0)
    /\ adjacent = Returned(<< >>)
    /\ domino = ALL_TILES[1]
    /\ flipped = ALL_TILES[1]
    /\ flipped_twice = ALL_TILES[1]

Init ==
    /\ placements = new.placements
    /\ grid = new.grid
    /\ overflow_checks \in BOOLEAN
    /\ Idle

Propose(p) ==
    /\ pc = "idle"
    /\ Len(placements) < MaxPlacements
    /\ pc' = "proposed"
    /\ placement' = p
    /\ UNCHANGED << placements, grid, result, overflow_checks, positions, position,
                    adjacent, domino, flipped, flipped_twice >>

AttemptPlace ==
    /\ pc = "proposed"
    /\ LET out == attempt_place(Kingdom(placements, grid), placement, overflow_checks)
       IN  /\ placements' = out.kingdom.placements
           /\ grid' = out.kingdom.grid
           /\ result' = out.result
    /\ pc' = "returned"
    /\ UNCHANGED << placement, overflow_checks, positions, position, adjacent,
                    domino, flipped, flipped_twice >>

Acknowledge ==
    /\ pc = "returned"
    /\ pc' = "idle"
    /\ placement' = NoPlacement
    /\ result' = "None"
    /\ UNCHANGED << placements, grid, overflow_checks, positions, position, adjacent,
                    domino, flipped, flipped_twice >>

Next ==
    \/ \E p \in Candidates : Propose(p)
    \/ AttemptPlace
    \/ Acknowledge

Spec == Init /\ [][Next]_vars

----------------------------------------------------------------------------
\* The resolvers and flip as pure functions: Init draws the input, the action applies it

InitPositions ==
    /\ \E k \in SampleKingdoms : placements = k.placements /\ grid = k.grid
    /\ overflow_checks \in BOOLEAN
    /\ pc = "proposed"
    /\ placement \in PlacementInputs
    /\ result = "None"
    /\ positions = Returned(<< >>)
    /\ position = Position(0, 0)
    /\ adjacent = Returned(<< >>)
    /\ domino = ALL_TILES[1]
    /\ flipped = ALL_TILES[1]
    /\ flipped_twice = ALL_TILES[1]

GetPositionsFilledByPlacement ==
    /\ pc = "proposed"
    /\ positions' = get_positions_filled_by_placement(Kingdom(placements, grid), placement,
                                                      overflow_checks)
    /\ pc' = "returned"
    /\ UNCHANGED << placements, grid, placement, result, overflow_checks, position,
                    adjacent, domino, flipped, flipped_twice >>

NextPositions == GetPositionsFilledByPlacement

SpecPositions == InitPositions /\ [][NextPositions]_vars

InitAdjacent ==
    /\ \E k \in SampleKingdoms : placements = k.placements /\ grid = k.grid
    /\ overflow_checks \in BOOLEAN
    /\ pc = "proposed"
    /\ position \in I8Positions
    /\ placement = NoPlacement
    /\ result = "None"
    /\ positions = Returned(<< >>)
    /\ adjacent = Returned(<< >>)
    /\ domino = ALL_TILES[1]
    /\ flipped = ALL_TILES[1]
    /\ flipped_twice = ALL_TILES[1]

GetAdjacentPositions ==
    /\ pc = "proposed"
    /\ adjacent' = get_adjacent_positions(Kingdom(placements, grid), position, overflow_checks)
    /\ pc' = "returned"
    /\ UNCHANGED << placements, grid, placement, result, overflow_checks, positions,
                    position, domino, flipped, flipped_twice >>

NextAdjacent == GetAdjacentPositions

SpecAdjacent == InitAdjacent /\ [][NextAdjacent]_vars

InitFlip ==
    /\ placements = new.placements
    /\ grid = new.grid
    /\ overflow_checks \in BOOLEAN
    /\ pc = "proposed"
    /\ domino \in DominoValues
    /\ flipped = domino
    /\ flipped_twice = domino
    /\ placement = NoPlacement
    /\ result = "None"
    /\ positions = Returned(<< >>)
    /\ position = Position(0, 0)
    /\ adjacent = Returned(<< >>)

Flip ==
    /\ pc = "proposed"
    /\ flipped' = flip(domino)
    /\ pc' = "flipped"
    /\ UNCHANGED << placements, grid, placement, result, overflow_checks, positions,
                    position, adjacent, domino, flipped_twice >>

FlipBack ==
    /\ pc = "flipped"
    /\ flipped_twice' = flip(flipped)
    /\ pc' = "returned"
    /\ UNCHANGED << placements, grid, placement, result, overflow_checks, positions,
                    position, adjacent, domino, flipped >>

NextFlip == Flip \/ FlipBack

SpecFlip == InitFlip /\ [][NextFlip]_vars

----------------------------------------------------------------------------
\* Properties

\* the cells a placement is said to fill: the anchor, and for a Domino the cell one step
\* right (LeftRight), up (TopBottom), left (RightLeft) or down (BottomTop) of it
ClaimedSecond(pos, o) ==
    CASE o = "LeftRight" -> << pos[1] + 1, pos[2] >>
      [] o = "TopBottom" -> << pos[1], pos[2] - 1 >>
      [] o = "RightLeft" -> << pos[1] - 1, pos[2] >>
      [] o = "BottomTop" -> << pos[1], pos[2] + 1 >>

ClaimedCells(p) ==
    IF p.tile.kind = "Castle"
    THEN << p.position >>
    ELSE << p.position, ClaimedSecond(p.position, p.orientation) >>

ClaimedCellSet(p) == {ClaimedCells(p)[i] : i \in 1 .. Len(ClaimedCells(p))}

ClaimedNeighbours(c) ==
    << << c[1] + 1, c[2] >>, << c[1], c[2] - 1 >>, << c[1] - 1, c[2] >>, << c[1], c[2] + 1 >> >>

OutsideExtent(c) == c[1] > 2 \/ c[1] < 0 - 2 \/ c[2] > 2 \/ c[2] < 0 - 2

\* AnyTileType on an occupied cell n of the board (ps, g)
TerrainOn(ps, g, n) ==
    LET q == ps[g[n] + 1]
    IN  IF q.tile.kind = "Castle" THEN "Castle"
        ELSE IF n = q.position THEN q.tile.domino[1].tile_type
        ELSE q.tile.domino[2].tile_type

\* some cell of p has an orthogonal neighbour on the board (ps, g) holding the Castle
\* or a domino half of that cell's terrain
HasQualifyingNeighbour(ps, g, p) ==
    \E i \in 1 .. 2 : \E j \in 1 .. 4 :
        LET n == ClaimedNeighbours(ClaimedCells(p)[i])[j]
        IN  /\ n \in DOMAIN g
            /\ TerrainOn(ps, g, n) \in {"Castle", p.tile.domino[i].tile_type}

CastleAtOrigin == [tile |-> TileCastle, position |-> << 0, 0 >>, orientation |-> "LeftRight"]

\* C1: get_positions_filled_by_placement returns [anchor] for a Castle and
\* [anchor, second] for a Domino, second being (x+1, y) for LeftRight, (x, y-1) for
\* TopBottom, (x-1, y) for RightLeft and (x, y+1) for BottomTop, on every Kingdom state.
C1_CellsOfPlacement ==
    pc = "returned" =>
        /\ ~ positions.panicked
        /\ positions.positions = ClaimedCells(placement)
        /\ \A k \in SampleKingdoms :
               get_positions_filled_by_placement(k, placement, overflow_checks) = positions

\* C2: when attempt_place returns an error, the placement sequence and the grid index
\* are those of before the call.
C2_AtomicRejection ==
    [][(pc = "proposed" /\ result' \in TilePlacementError)
           => (placements' = placements /\ grid' = grid)]_vars

C2_Witness ==
    /\ pc = "returned"
    /\ result = "NoMatchingAdjacentTile"
    /\ Len(placements) = 2

\* C3: a successful attempt_place appends the placement, adds exactly its cells to the
\* grid keys under the new sequence index and keeps every earlier key and value; no step
\* removes or alters a placement or a grid key.
C3_MonotonicOccupancy ==
    [][/\ (pc = "proposed" /\ result' = "Ok") =>
              /\ placements' = Append(placements, placement)
              /\ DOMAIN grid' = DOMAIN grid \cup ClaimedCellSet(placement)
              /\ \A c \in ClaimedCellSet(placement) : grid'[c] = Len(placements') - 1
       /\ Len(placements') >= Len(placements)
       /\ \A i \in 1 .. Len(placements) : placements'[i] = placements[i]
       /\ \A c \in DOMAIN grid : c \in DOMAIN grid' /\ grid'[c] = grid[c]]_vars

\* a second domino committed against a domino half, away from the Castle
C3_Witness ==
    /\ pc = "returned"
    /\ result = "Ok"
    /\ Len(placements) = 3
    /\ placements[3] = placement
    /\ Cardinality(DOMAIN grid) = 5
    /\ \A i \in 1 .. 2 : \A j \in 1 .. 4 :
           ClaimedNeighbours(ClaimedCells(placement)[i])[j] # << 0, 0 >>

\* C4: attempt_place of a Domino whose cells are in bounds and free succeeds only if a
\* cell of it has an orthogonal neighbour holding the Castle or a half of the same
\* terrain, and returns NoMatchingAdjacentTile when no cell has one.
C4_MatchingAdjacency ==
    [][(/\ pc = "proposed"
        /\ pc' = "returned"
        /\ placement.tile.kind = "Domino"
        /\ \A c \in ClaimedCellSet(placement) : ~ OutsideExtent(c) /\ c \notin DOMAIN grid)
           => /\ result' = "Ok" => HasQualifyingNeighbour(placements, grid, placement)
              /\ ~ HasQualifyingNeighbour(placements, grid, placement)
                     => result' = "NoMatchingAdjacentTile"]_vars

\* rejected for terrain alone: a cell of the candidate touches an occupied cell
C4_Witness ==
    /\ pc = "returned"
    /\ result = "NoMatchingAdjacentTile"
    /\ \E i \in 1 .. 2 : \E j \in 1 .. 4 :
           ClaimedNeighbours(ClaimedCells(placement)[i])[j] \in DOMAIN grid

C6_GridIndexConsistency ==
    /\ \A c \in DOMAIN grid :
           /\ grid[c] \in 0 .. (Len(placements) - 1)
           /\ c \in Cells(get_positions_filled_by_placement(Kingdom(placements, grid),
                       placements[grid[c] + 1], overflow_checks).positions)
    /\ \A i \in 1 .. Len(placements) : \A j \in 1 .. Len(placements) :
           i # j => ClaimedCellSet(placements[i]) \cap ClaimedCellSet(placements[j]) = {}

C6_Witness ==
    /\ Len(placements) = 3
    /\ Cardinality(DOMAIN grid) = 5

\* C7: Kingdom::new holds exactly the Castle placement at (0,0) and the grid
\* {(0,0) -> 0}, and the first placement stays that Castle placement ever after.
C7_Construction ==
    /\ placements = << CastleAtOrigin >>
    /\ DOMAIN grid = {<< 0, 0 >>}
    /\ grid[<< 0, 0 >>] = 0
    /\ [](placements[1] = CastleAtOrigin)

C7_Witness ==
    /\ Len(placements) = 3
    /\ placements[1] = CastleAtOrigin
    /\ pc = "returned"

\* C8: for every anchor in the i8 range and every orientation, a Domino placement
\* resolves to exactly 2 distinct cells differing by 1 in exactly one coordinate, and a
\* Castle placement to exactly 1 cell.
C8_DominoCellsAdjacent ==
    pc = "returned" =>
        /\ ~ positions.panicked
        /\ placement.tile.kind = "Castle" => Len(positions.positions) = 1
        /\ placement.tile.kind = "Domino" =>
               /\ Len(positions.positions) = 2
               /\ positions.positions[1] # positions.positions[2]
               /\ Abs(positions.positions[1][1] - positions.positions[2][1])
                      + Abs(positions.positions[1][2] - positions.positions[2][2]) = 1

\* C9: flip(flip(d)) = d, flip(d) # d when the two sides differ, and flip leaves d as
\* it was.
C9_FlipInvolution ==
    /\ [](pc \in {"flipped", "returned"} => (domino[1] # domino[2] => flipped # domino))
    /\ [](pc = "returned" => flipped_twice = domino)
    /\ [][domino' = domino]_vars

C9_Witness ==
    /\ pc = "returned"
    /\ domino = ALL_TILES[48]
    /\ flipped # domino

\* C10: get_adjacent_positions returns exactly (x+1, y), (x, y-1), (x-1, y), (x, y+1)
\* for every Position, unfiltered, on every Kingdom state.
C10_FourNeighbours ==
    pc = "returned" =>
        /\ ~ adjacent.panicked
        /\ adjacent.positions = ClaimedNeighbours(position)
        /\ \A k \in SampleKingdoms :
               get_adjacent_positions(k, position, overflow_checks) = adjacent

====
